---- MODULE Spec2Model ----
(***************************************************************************)
(* Jokes API: the SQLite-backed service (src/jokes_api_2.py) and the       *)
(* minimal in-memory service (src/jokes_api.py), as state machines.        *)
(*                                                                         *)
(* Every SQL statement a handler executes is one atomic step against the   *)
(* database file; a handler opens its own connection (get_db), so the      *)
(* statements of two requests interleave freely.  An INSERT/UPDATE/DELETE  *)
(* is modelled together with the db.commit() that follows it.              *)
(***************************************************************************)
EXTENDS Integers, Sequences, FiniteSets, TLC

(***************************************************************************)
(* Bounds of the model.                                                    *)
(***************************************************************************)
\* ids the jokes table may hand out in total (sample jokes included)
MaxJokes == 3
\* sample jokes init_db inserts (a prefix of its list of 20)
NumSample == 2
\* ratings the service may commit in total
MaxVotes == 3
\* rows the favorites table may hold
MaxFavs == 2
\* seconds CURRENT_TIMESTAMP may advance
MaxClock == 1
\* jokes the in-memory service may append to its 8 built-in ones
MaxMemAdds == 3

(***************************************************************************)
(* Python floats (IEEE-754 binary64: 53 significant bits, round to         *)
(* nearest, ties to even).  Every float the rating code touches is 0.0 or  *)
(* lies in [1, 2^13), so it is a multiple of 2^-52 and is represented      *)
(* exactly by the natural number x * 2^52, written in base 2^13 as         *)
(* <<f0, f1, f2, f3, ip>>: ip is the integer part of x and f3 f2 f1 f0     *)
(* the 52 fraction bits, f0 the least significant 13.                      *)
(***************************************************************************)
Limb == 2^13

FloatZero == <<0, 0, 0, 0, 0>>

\* float(k) for a small non-negative int k
FloatOfInt(k) == <<0, 0, 0, 0, k>>

\* exact sum, exact product with a small int, exact quotient and remainder
BigAdd(a, b) ==
  LET s1 == a[1] + b[1]
      s2 == a[2] + b[2] + s1 \div Limb
      s3 == a[3] + b[3] + s2 \div Limb
      s4 == a[4] + b[4] + s3 \div Limb
      s5 == a[5] + b[5] + s4 \div Limb
  IN <<s1 % Limb, s2 % Limb, s3 % Limb, s4 % Limb, s5>>

BigMulSmall(a, k) ==
  LET p1 == a[1] * k
      p2 == a[2] * k + p1 \div Limb
      p3 == a[3] * k + p2 \div Limb
      p4 == a[4] * k + p3 \div Limb
      p5 == a[5] * k + p4 \div Limb
  IN <<p1 % Limb, p2 % Limb, p3 % Limb, p4 % Limb, p5>>

BigDivSmall(a, k) ==
  LET n5 == a[5]
      n4 == (n5 % k) * Limb + a[4]
      n3 == (n4 % k) * Limb + a[3]
      n2 == (n3 % k) * Limb + a[2]
      n1 == (n2 % k) * Limb + a[1]
  IN [q |-> <<n1 \div k, n2 \div k, n3 \div k, n4 \div k, n5 \div k>>,
      r |-> n1 % k]

\* -1, 0, 1 as a < b, a = b, a > b
BigCmp(a, b) ==
  LET d == {i \in 1..5 : a[i] # b[i]}
  IN IF d = {} THEN 0
     ELSE LET m == CHOOSE i \in d : \A j \in d : j <= i
          IN IF a[m] < b[m] THEN -1 ELSE 1

\* a - b for a >= b
BigSub(a, b) ==
  LET d1 == a[1] - b[1]
      d2 == a[2] - b[2] - (IF d1 < 0 THEN 1 ELSE 0)
      d3 == a[3] - b[3] - (IF d2 < 0 THEN 1 ELSE 0)
      d4 == a[4] - b[4] - (IF d3 < 0 THEN 1 ELSE 0)
      d5 == a[5] - b[5] - (IF d4 < 0 THEN 1 ELSE 0)
  IN <<d1 % Limb, d2 % Limb, d3 % Limb, d4 % Limb, d5>>

BigAbsDiff(a, b) == IF BigCmp(a, b) >= 0 THEN BigSub(a, b) ELSE BigSub(b, a)

\* number of bits of the positive int n
BitLen(n) == CHOOSE b \in 1..13 : 2^(b - 1) <= n /\ n < 2^b

\* The exact value a + r/k (0 <= r < k), at least 1.0, rounded to 53
\* significant bits, ties to even.  With s = BitLen(ip) - 1 the last s bits
\* of f0 and the fraction r/k are dropped.
RoundSig(a, r, k) ==
  LET s    == BitLen(a[5]) - 1
      unit == 2^s
      low  == a[1] % unit
      odd  == (a[1] \div unit) % 2 = 1
      twice == 2 * (low * k + r)
      half == k * unit
      up   == twice > half \/ (twice = half /\ odd)
      base == <<a[1] - low, a[2], a[3], a[4], a[5]>>
  IN IF up THEN BigAdd(base, <<unit, 0, 0, 0, 0>>) ELSE base

\* x * k, x + y, x / k as Python computes them on floats (k a small int,
\* converted to float exactly)
FloatMulInt(x, k) ==
  LET p == BigMulSmall(x, k) IN IF p[5] = 0 THEN p ELSE RoundSig(p, 0, 1)
FloatAdd(x, y) ==
  LET p == BigAdd(x, y) IN IF p[5] = 0 THEN p ELSE RoundSig(p, 0, 1)
FloatDivInt(x, k) ==
  LET d == BigDivSmall(x, k) IN IF d.q[5] = 0 THEN d.q ELSE RoundSig(d.q, d.r, k)

\* SQLite stores a NaN bound to a REAL column as NULL
SqlNull == <<0, 0, 0, 0, -1>>

Min(a, b) == IF a <= b THEN a ELSE b

(***************************************************************************)
(* The database init_db builds.                                            *)
(***************************************************************************)
Categories == {"programming", "python", "general", "dad", "dark"}

\* the category of each sample joke, in insertion order
SampleCategories ==
  <<"programming", "python", "general", "dad", "programming",
    "programming", "general", "python", "programming", "dad",
    "programming", "programming", "dad", "programming", "dad",
    "programming", "programming", "programming", "programming", "dad">>

\* a row of the jokes table the moment it is inserted: rating, votes and the
\* two timestamps take their column defaults
NewJokeRow(id, setup, punchline, category, now) ==
  [id |-> id, setup |-> setup, punchline |-> punchline, category |-> category,
   rating |-> FloatZero, votes |-> 0, created_at |-> now, updated_at |-> now]

\* a faulty allocation that forgets the ids of deleted rows (a rowid without
\* AUTOINCREMENT)
NextJokeIdReuse(rows, seqno) ==
  LET ids == {rows[i].id : i \in 1..Len(rows)} \cup {0}
  IN (CHOOSE m \in ids : \A x \in ids : x <= m) + 1

\* AUTOINCREMENT: one more than the largest rowid the table ever held
NextJokeId(rows, seqno) ==
  LET used == {rows[i].id : i \in 1..Len(rows)} \cup {seqno}
  IN (CHOOSE m \in used : \A n \in used : n <= m) + 1

\* SELECT * FROM jokes WHERE id = ?  (the rows found: none or one)
SelectJoke(rows, id) == SelectSeq(rows, LAMBDA r : r.id = id)

\* a faulty check that takes any name for a category
CategoryExistsAny(name) == TRUE

\* SELECT * FROM categories WHERE name = ?  finds a row
CategoryExists(name) == name \in Categories

\* DELETE FROM jokes WHERE id = ?
DeleteJokeRow(rows, id) == SelectSeq(rows, LAMBDA r : r.id # id)

(***************************************************************************)
(* get_all_jokes: the query builder.                                       *)
(***************************************************************************)
PerPageCap == 100

ClampPerPage(per_page) == Min(per_page, PerPageCap)

AllowedSorts == {"rating", "votes", "created_at", "id"}

SortField(sort_by) == IF sort_by \in AllowedSorts THEN sort_by ELSE "created_at"

\* str.upper() on the order strings the model sends
Upper(s) ==
  CASE s = "asc" -> "ASC"
    [] s = "desc" -> "DESC"
    [] s = "sideways" -> "SIDEWAYS"
    [] OTHER -> s

SortOrder(order) ==
  LET o == Upper(order) IN IF o \in {"ASC", "DESC"} THEN o ELSE "DESC"

\* a sorts strictly before b under ORDER BY field ASC (NULL sorts first)
KeyLess(a, b, field) ==
  CASE field = "rating" ->
         IF a.rating = SqlNull THEN b.rating # SqlNull
         ELSE b.rating # SqlNull /\ BigCmp(a.rating, b.rating) < 0
    [] field = "votes" -> a.votes < b.votes
    [] field = "created_at" -> a.created_at < b.created_at
    [] OTHER -> a.id < b.id

Before(a, b, field, order) ==
  IF order = "ASC" THEN KeyLess(a, b, field) ELSE KeyLess(b, a, field)

\* ORDER BY field order over rows in scan (rowid) order.  A query with a
\* LIMIT sorts through a b-tree keyed by (field, scan sequence), so rows with
\* equal keys keep their scan order.
RECURSIVE OrderBy(_, _, _)
OrderBy(rows, field, order) ==
  IF rows = <<>> THEN <<>>
  ELSE LET n    == Len(rows)
           x    == rows[n]
           done == OrderBy(SubSeq(rows, 1, n - 1), field, order)
           k    == Cardinality({i \in 1..Len(done) : ~Before(x, done[i], field, order)})
       IN SubSeq(done, 1, k) \o <<x>> \o SubSeq(done, k + 1, Len(done))

\* a faulty window that starts one row late
LimitOffsetLate(rows, limit, offset) ==
  LET hi == Min(Len(rows), offset + 1 + limit)
  IN IF offset + 1 >= hi THEN <<>> ELSE SubSeq(rows, offset + 2, hi)

\* LIMIT ? OFFSET ?: a negative limit is no limit, a negative offset is 0
LimitOffset(rows, limit, offset) ==
  LET off == IF offset < 0 THEN 0 ELSE offset
      hi  == IF limit < 0 THEN Len(rows) ELSE Min(Len(rows), off + limit)
  IN IF off >= hi THEN <<>> ELSE SubSeq(rows, off + 1, hi)

\* WHERE category = ?, added only for a non-empty category argument
FilterCategory(rows, category) ==
  IF category = "" THEN rows
  ELSE SelectSeq(rows, LAMBDA r : r.category = category)

\* Python's // (floor division) for a non-zero divisor
FloorDiv(a, b) == IF b > 0 THEN a \div b ELSE (-a) \div (-b)

\* the rows of one page: the SELECT ... ORDER BY ... LIMIT ? OFFSET ?
PageRows(rows, page, per_page, category, sort_by, order) ==
  LimitOffset(OrderBy(FilterCategory(rows, category),
                      SortField(sort_by), SortOrder(order)),
              ClampPerPage(per_page), (page - 1) * ClampPerPage(per_page))

\* SELECT COUNT(*) with the same filter
CountRows(rows, category) == Len(FilterCategory(rows, category))

(***************************************************************************)
(* State.                                                                  *)
(***************************************************************************)
VARIABLES
  jokes,      \* the jokes table, rows in rowid order
  seqno,      \* sqlite_sequence of jokes: the largest id handed out
  favorites,  \* the favorites table, rows in rowid order
  clock,      \* CURRENT_TIMESTAMP, in seconds
  pc,         \* per request slot: the statement its handler executes next
  loc,        \* per request slot: the handler's arguments and local variables
  resp,       \* per request slot: the response to its last request
  rated,      \* per joke id: the ratings whose UPDATE was committed, in order
  JOKES,      \* jokes_api.py: the module-level list
  mpc,        \* jokes_api.py, per thread: where add_joke stands
  mnew        \* jokes_api.py, per thread: add_joke's new_joke

vars == <<jokes, seqno, favorites, clock, pc, loc, resp, rated, JOKES, mpc, mnew>>
dbVars == <<jokes, seqno, favorites, clock, pc, loc, resp, rated>>
memVars == <<JOKES, mpc, mnew>>

\* request slots: each request runs on a connection of its own (get_db)
Conns == {"c1", "c2"}

\* a key missing from a JSON body
Absent == "<absent>"

NoLoc == [op |-> "none"]
Response(status, msg, rows, meta) ==
  [op |-> "none", status |-> status, msg |-> msg, rows |-> rows, meta |-> meta]
NoResponse == Response(0, "", <<>>, <<>>)

\* the response, tagged with the handler that sent it
Reply(p, r) ==
  /\ resp' = [resp EXCEPT ![p] = [r EXCEPT !.op = loc[p].op]]
  /\ pc' = [pc EXCEPT ![p] = "idle"]
  /\ loc' = [loc EXCEPT ![p] = NoLoc]

Goto(p, label, l) ==
  /\ pc' = [pc EXCEPT ![p] = label]
  /\ loc' = [loc EXCEPT ![p] = l]
  /\ UNCHANGED resp

Receive(p, label, l) ==
  /\ pc[p] = "idle"
  /\ pc' = [pc EXCEPT ![p] = label]
  /\ loc' = [loc EXCEPT ![p] = l]
  /\ resp' = [resp EXCEPT ![p] = NoResponse]

InFlight(labels) == Cardinality({q \in Conns : pc[q] \in labels})

\* the response body of a handler that re-reads its joke: dict_from_row of a
\* missing row raises, which Flask answers with 500
RowReply(p, status, id) ==
  LET found == SelectJoke(jokes, id)
  IN IF found = <<>> THEN Reply(p, Response(500, "Internal server error", <<>>, <<>>))
     ELSE Reply(p, Response(status, "", found, <<>>))

(***************************************************************************)
(* POST /jokes  (add_joke)                                                 *)
(***************************************************************************)
AddReceive(p, data) ==
  /\ seqno + InFlight({"add_check", "add_insert"}) < MaxJokes
  /\ Receive(p, "add_check", [op |-> "add", data |-> data])
  /\ UNCHANGED <<jokes, seqno, favorites, clock, rated>>

AddCategory(data) == IF data.category = Absent THEN "general" ELSE data.category

AddCheck(p) ==
  /\ pc[p] = "add_check"
  /\ LET data == loc[p].data
     IN IF data.setup = Absent \/ data.punchline = Absent
        THEN Reply(p, Response(400, "Setup and punchline are required", <<>>, <<>>))
        ELSE IF ~CategoryExists(AddCategory(data))
        THEN Reply(p, Response(400, "Category does not exist", <<>>, <<>>))
        ELSE Goto(p, "add_insert", loc[p])
  /\ UNCHANGED <<jokes, seqno, favorites, clock, rated>>

AddInsert(p) ==
  /\ pc[p] = "add_insert"
  /\ LET data == loc[p].data
         id   == NextJokeId(jokes, seqno)
     IN /\ jokes' = Append(jokes, NewJokeRow(id, data.setup, data.punchline,
                                             AddCategory(data), clock))
        /\ seqno' = id
        /\ Goto(p, "add_select", [op |-> "add", joke_id |-> id])
  /\ UNCHANGED <<favorites, clock, rated>>

AddSelect(p) ==
  /\ pc[p] = "add_select"
  /\ RowReply(p, 201, loc[p].joke_id)
  /\ UNCHANGED <<jokes, seqno, favorites, clock, rated>>

AddJoke(p) == AddCheck(p) \/ AddInsert(p) \/ AddSelect(p)

(***************************************************************************)
(* PUT /jokes/<id>  (update_joke)                                          *)
(***************************************************************************)
UpdateReceive(p, id, data) ==
  /\ Receive(p, "update_check", [op |-> "update", id |-> id, data |-> data])
  /\ UNCHANGED <<jokes, seqno, favorites, clock, rated>>

UpdateCheck(p) ==
  /\ pc[p] = "update_check"
  /\ LET data == loc[p].data
     IN IF data.setup = Absent /\ data.punchline = Absent /\ data.category = Absent
        THEN Reply(p, Response(400, "No data provided", <<>>, <<>>))
        ELSE IF SelectJoke(jokes, loc[p].id) = <<>>
        THEN Reply(p, Response(404, "Joke not found", <<>>, <<>>))
        ELSE IF data.category # Absent /\ ~CategoryExists(data.category)
        THEN Reply(p, Response(400, "Category does not exist", <<>>, <<>>))
        ELSE Goto(p, "update_write", loc[p])
  /\ UNCHANGED <<jokes, seqno, favorites, clock, rated>>

\* UPDATE jokes SET <the fields given>, updated_at = CURRENT_TIMESTAMP WHERE id = ?
UpdatedRow(r, data, now) ==
  [r EXCEPT !.setup = IF data.setup = Absent THEN @ ELSE data.setup,
            !.punchline = IF data.punchline = Absent THEN @ ELSE data.punchline,
            !.category = IF data.category = Absent THEN @ ELSE data.category,
            !.updated_at = now]

UpdateWrite(p) ==
  /\ pc[p] = "update_write"
  /\ jokes' = [i \in 1..Len(jokes) |->
                 IF jokes[i].id = loc[p].id
                 THEN UpdatedRow(jokes[i], loc[p].data, clock) ELSE jokes[i]]
  /\ Goto(p, "update_select", loc[p])
  /\ UNCHANGED <<seqno, favorites, clock, rated>>

UpdateSelect(p) ==
  /\ pc[p] = "update_select"
  /\ RowReply(p, 200, loc[p].id)
  /\ UNCHANGED <<jokes, seqno, favorites, clock, rated>>

UpdateJoke(p) == UpdateCheck(p) \/ UpdateWrite(p) \/ UpdateSelect(p)

(***************************************************************************)
(* DELETE /jokes/<id>  (delete_joke)                                       *)
(***************************************************************************)
DeleteReceive(p, id) ==
  /\ Receive(p, "delete_check", [op |-> "delete", id |-> id])
  /\ UNCHANGED <<jokes, seqno, favorites, clock, rated>>

DeleteCheck(p) ==
  /\ pc[p] = "delete_check"
  /\ IF SelectJoke(jokes, loc[p].id) = <<>>
     THEN Reply(p, Response(404, "Joke not found", <<>>, <<>>))
     ELSE Goto(p, "delete_write", loc[p])
  /\ UNCHANGED <<jokes, seqno, favorites, clock, rated>>

DeleteWrite(p) ==
  /\ pc[p] = "delete_write"
  /\ jokes' = DeleteJokeRow(jokes, loc[p].id)
  /\ Reply(p, Response(200, "Joke deleted successfully", <<>>, <<>>))
  /\ UNCHANGED <<seqno, favorites, clock, rated>>

DeleteJoke(p) == DeleteCheck(p) \/ DeleteWrite(p)

(***************************************************************************)
(* POST /jokes/<id>/rate  (rate_joke)                                      *)
(***************************************************************************)
\* what json.loads makes of the body's "rating": t is the Python type (a
\* JSON true/false is a bool, the literal NaN a float), v its numeric value
JInt(k) == [t |-> "int", v |-> FloatOfInt(k)]
JFloat(x) == [t |-> "float", v |-> x]
JBool(b) == [t |-> "bool", v |-> FloatOfInt(IF b THEN 1 ELSE 0)]
JNaN == [t |-> "nan", v |-> FloatZero]
JString == [t |-> "str", v |-> FloatZero]
JMissing == [t |-> "missing", v |-> FloatZero]

\* the floats 1.7 (0x1.b333333333333p+0), 3.3 (0x1.a666666666666p+1) and
\* 5.1 (0x1.4666666666666p+2)
Float1_7 == <<4915, 6553, 3276, 5734, 1>>
Float3_3 == <<3276, 1638, 4915, 2457, 3>>
Float5_1 == <<6552, 3276, 1638, 819, 5>>

\* a float NaN held in a Python variable
PyNaN == <<0, 0, 0, 0, -2>>

\* sqlite3 binds a float NaN as NULL
BindReal(x) == IF x = PyNaN THEN SqlNull ELSE x

\* isinstance(rating, (int, float)): bool is a subclass of int
IsIntOrFloat(r) == r.t \in {"int", "float", "bool", "nan"}

\* rating < 1, rating > 5: every comparison with NaN is False
BelowOne(r) == r.t # "nan" /\ BigCmp(r.v, FloatOfInt(1)) < 0
AboveFive(r) == r.t # "nan" /\ BigCmp(r.v, FloatOfInt(5)) > 0

\* the body passes rate_joke's two checks
RatingAccepted(r) ==
  r.t # "missing" /\ ~(~IsIntOrFloat(r) \/ BelowOne(r) \/ AboveFive(r))

NewVotes(current_votes) == current_votes + 1

\* a faulty update that does not weight the old mean by its votes
NewRatingUnweighted(current_rating, current_votes, r) ==
  FloatDivInt(FloatAdd(current_rating, r.v), NewVotes(current_votes))

\* ((current_rating * current_votes) + rating) / new_votes
NewRating(current_rating, current_votes, r) ==
  IF r.t = "nan" THEN PyNaN
  ELSE FloatDivInt(FloatAdd(FloatMulInt(current_rating, current_votes), r.v),
                   NewVotes(current_votes))

\* ratings committed so far, on any joke
TotalRated == LET RECURSIVE Sum(_)
                  Sum(i) == IF i = 0 THEN 0 ELSE Len(rated[i]) + Sum(i - 1)
              IN Sum(MaxJokes)

RateReceive(p, id, r) ==
  /\ TotalRated + InFlight({"rate_check", "rate_write"}) < MaxVotes
  /\ Receive(p, "rate_check", [op |-> "rate", id |-> id, rating |-> r])
  /\ UNCHANGED <<jokes, seqno, favorites, clock, rated>>

RateCheck(p) ==
  /\ pc[p] = "rate_check"
  /\ LET r     == loc[p].rating
         found == SelectJoke(jokes, loc[p].id)
     IN IF r.t = "missing"
        THEN Reply(p, Response(400, "Rating is required", <<>>, <<>>))
        ELSE IF ~IsIntOrFloat(r) \/ BelowOne(r) \/ AboveFive(r)
        THEN Reply(p, Response(400, "Rating must be between 1 and 5", <<>>, <<>>))
        ELSE IF found = <<>>
        THEN Reply(p, Response(404, "Joke not found", <<>>, <<>>))
        ELSE IF found[1].rating = SqlNull
        \* None * int raises TypeError
        THEN Reply(p, Response(500, "Internal server error", <<>>, <<>>))
        ELSE Goto(p, "rate_write",
                  [op |-> "rate", id |-> loc[p].id, rating |-> r,
                   new_votes |-> NewVotes(found[1].votes),
                   new_rating |-> NewRating(found[1].rating, found[1].votes, r)])
  /\ UNCHANGED <<jokes, seqno, favorites, clock, rated>>

\* UPDATE jokes SET rating = ?, votes = ? WHERE id = ?
RateWrite(p) ==
  /\ pc[p] = "rate_write"
  /\ jokes' = [i \in 1..Len(jokes) |->
                 IF jokes[i].id = loc[p].id
                 THEN [jokes[i] EXCEPT !.rating = BindReal(loc[p].new_rating),
                                       !.votes = loc[p].new_votes]
                 ELSE jokes[i]]
  /\ rated' = IF SelectJoke(jokes, loc[p].id) = <<>> THEN rated
              ELSE [rated EXCEPT ![loc[p].id] = Append(@, loc[p].rating)]
  /\ Goto(p, "rate_select", loc[p])
  /\ UNCHANGED <<seqno, favorites, clock>>

RateSelect(p) ==
  /\ pc[p] = "rate_select"
  /\ RowReply(p, 200, loc[p].id)
  /\ UNCHANGED <<jokes, seqno, favorites, clock, rated>>

RateJoke(p) == RateCheck(p) \/ RateWrite(p) \/ RateSelect(p)

(***************************************************************************)
(* POST /jokes/<id>/favorite  (favorite_joke)  and  GET /favorites         *)
(***************************************************************************)
\* the client addresses get_remote_address may return
Users == {"10.0.0.1", "10.0.0.2"}

\* a faulty lookup that matches any client's favorite of the joke
SelectFavoriteAnyUser(rows, joke_id, user_ip) ==
  SelectSeq(rows, LAMBDA f : f.joke_id = joke_id)

\* SELECT * FROM favorites WHERE joke_id = ? AND user_ip = ?
SelectFavorite(rows, joke_id, user_ip) ==
  SelectSeq(rows, LAMBDA f : f.joke_id = joke_id /\ f.user_ip = user_ip)

FavoriteReceive(p, id, user_ip) ==
  /\ Len(favorites) + InFlight({"favorite_joke", "favorite_check", "favorite_insert"}) < MaxFavs
  /\ Receive(p, "favorite_joke", [op |-> "favorite", id |-> id, user_ip |-> user_ip])
  /\ UNCHANGED <<jokes, seqno, favorites, clock, rated>>

FavoriteSelectJoke(p) ==
  /\ pc[p] = "favorite_joke"
  /\ IF SelectJoke(jokes, loc[p].id) = <<>>
     THEN Reply(p, Response(404, "Joke not found", <<>>, <<>>))
     ELSE Goto(p, "favorite_check", loc[p])
  /\ UNCHANGED <<jokes, seqno, favorites, clock, rated>>

FavoriteCheck(p) ==
  /\ pc[p] = "favorite_check"
  /\ IF SelectFavorite(favorites, loc[p].id, loc[p].user_ip) # <<>>
     THEN Reply(p, Response(200, "Joke already in favorites", <<>>, <<>>))
     ELSE Goto(p, "favorite_insert", loc[p])
  /\ UNCHANGED <<jokes, seqno, favorites, clock, rated>>

FavoriteInsert(p) ==
  /\ pc[p] = "favorite_insert"
  /\ favorites' = Append(favorites, [joke_id |-> loc[p].id,
                                     user_ip |-> loc[p].user_ip,
                                     created_at |-> clock])
  /\ Reply(p, Response(201, "Joke added to favorites", <<>>, <<>>))
  /\ UNCHANGED <<jokes, seqno, clock, rated>>

FavoriteJoke(p) == FavoriteSelectJoke(p) \/ FavoriteCheck(p) \/ FavoriteInsert(p)

\* the jokes rows joined to favorites rows fs, in the order of fs
RECURSIVE JoinJokes(_, _)
JoinJokes(fs, rows) ==
  IF fs = <<>> THEN <<>>
  ELSE SelectJoke(rows, Head(fs).joke_id) \o JoinJokes(Tail(fs), rows)

\* SELECT j.* FROM jokes j INNER JOIN favorites f ON j.id = f.joke_id
\* WHERE f.user_ip = ? ORDER BY f.created_at DESC
FavoritesOf(user_ip) ==
  JoinJokes(OrderBy(SelectSeq(favorites, LAMBDA f : f.user_ip = user_ip),
                    "created_at", "DESC"),
            jokes)

GetFavoritesReceive(p, user_ip) ==
  /\ Receive(p, "get_favorites", [op |-> "get_favorites", user_ip |-> user_ip])
  /\ UNCHANGED <<jokes, seqno, favorites, clock, rated>>

GetFavorites(p) ==
  /\ pc[p] = "get_favorites"
  /\ LET rows == FavoritesOf(loc[p].user_ip)
     IN Reply(p, Response(200, "", rows, <<Len(rows)>>))
  /\ UNCHANGED <<jokes, seqno, favorites, clock, rated>>

(***************************************************************************)
(* GET /jokes  (get_all_jokes)                                             *)
(***************************************************************************)
ListReceive(p, page, per_page, category, sort_by, order) ==
  /\ Receive(p, "list_count",
             [op |-> "list", page |-> page, per_page |-> per_page,
              category |-> category, sort_by |-> sort_by, order |-> order])
  /\ UNCHANGED <<jokes, seqno, favorites, clock, rated>>

\* cursor.execute(count_query, ...)
ListCount(p) ==
  /\ pc[p] = "list_count"
  /\ Goto(p, "list_page", loc[p] @@ [total |-> CountRows(jokes, loc[p].category)])
  /\ UNCHANGED <<jokes, seqno, favorites, clock, rated>>

\* the pagination envelope; (total + per_page - 1) // per_page raises
\* ZeroDivisionError for per_page = 0, which Flask answers with 500
ListResponse(rows, page, per_page, total) ==
  IF per_page = 0 THEN Response(500, "Internal server error", <<>>, <<>>)
  ELSE Response(200, "", rows,
                <<page, per_page, total, FloorDiv(total + per_page - 1, per_page)>>)

\* cursor.execute(query, params) and the response
ListPage(p) ==
  /\ pc[p] = "list_page"
  /\ LET l == loc[p]
     IN Reply(p, ListResponse(PageRows(jokes, l.page, l.per_page, l.category,
                                       l.sort_by, l.order),
                              l.page, ClampPerPage(l.per_page), l.total))
  /\ UNCHANGED <<jokes, seqno, favorites, clock, rated>>

GetAllJokes(p) == ListCount(p) \/ ListPage(p)

(***************************************************************************)
(* jokes_api.py: POST /jokes appends to the module-level list.  The Flask   *)
(* development server handles each request on a thread of its own, and a   *)
(* thread may be suspended between building new_joke and appending it.     *)
(***************************************************************************)
MemBuiltin == 8

MemMaxId(list) ==
  LET ids == {list[i].id : i \in 1..Len(list)}
  IN CHOOSE m \in ids : \A n \in ids : n <= m

\* validation and new_joke = {"id": max(...) + 1, ...}
MemAddBuild(p, data) ==
  /\ mpc[p] = "idle"
  /\ Len(JOKES) + Cardinality({q \in Conns : mpc[q] = "append"}) < MemBuiltin + MaxMemAdds
  /\ IF data.setup = Absent \/ data.punchline = Absent
     THEN UNCHANGED <<mpc, mnew>>
     ELSE /\ mnew' = [mnew EXCEPT ![p] = [id |-> MemMaxId(JOKES) + 1,
                                          setup |-> data.setup,
                                          punchline |-> data.punchline]]
          /\ mpc' = [mpc EXCEPT ![p] = "append"]
  /\ UNCHANGED JOKES
  /\ UNCHANGED dbVars

\* JOKES.append(new_joke)
MemAddAppend(p) ==
  /\ mpc[p] = "append"
  /\ JOKES' = Append(JOKES, mnew[p])
  /\ mpc' = [mpc EXCEPT ![p] = "idle"]
  /\ mnew' = [mnew EXCEPT ![p] = [id |-> 0, setup |-> "", punchline |-> ""]]
  /\ UNCHANGED dbVars

(***************************************************************************)
(* Initial state: a fresh database (init_db) and the built-in list.        *)
(***************************************************************************)
Init ==
  /\ jokes = [i \in 1..NumSample |->
                NewJokeRow(i, "sample setup", "sample punchline",
                           SampleCategories[i], 0)]
  /\ seqno = NumSample
  /\ favorites = <<>>
  /\ clock = 0
  /\ pc = [p \in Conns |-> "idle"]
  /\ loc = [p \in Conns |-> NoLoc]
  /\ resp = [p \in Conns |-> NoResponse]
  /\ rated = [i \in 1..MaxJokes |-> <<>>]
  /\ JOKES = [i \in 1..MemBuiltin |->
                [id |-> i, setup |-> "builtin setup", punchline |-> "builtin punchline"]]
  /\ mpc = [p \in Conns |-> "idle"]
  /\ mnew = [p \in Conns |-> [id |-> 0, setup |-> "", punchline |-> ""]]

\* CURRENT_TIMESTAMP advances
Tick ==
  /\ clock < MaxClock
  /\ clock' = clock + 1
  /\ UNCHANGED <<jokes, seqno, favorites, pc, loc, resp, rated>>
  /\ UNCHANGED memVars

(***************************************************************************)
(* The requests clients send.                                              *)
(***************************************************************************)
JokeIds == 1..MaxJokes

Body(setup, punchline, category) ==
  [setup |-> setup, punchline |-> punchline, category |-> category]

AddBodies ==
  {Body("Q", "A", Absent), Body("Q", "A", "python"),
   Body("Q", "A", "nonexistent"), Body("Q", Absent, "python")}

UpdateBodies ==
  {Body("Q2", Absent, Absent), Body(Absent, Absent, "dad"),
   Body("Q2", "A2", "nonexistent"), Body(Absent, Absent, Absent)}

ValidRatings == {JInt(1), JInt(2), JFloat(Float1_7), JFloat(Float3_3)}

RatingBodies ==
  ValidRatings \cup
  {JInt(0), JFloat(Float5_1), JString, JMissing, JBool(TRUE), JNaN}

ListRequests ==
  {<<1, 2, "", "rating", "asc">>, <<2, 2, "", "nonsense", "sideways">>,
   <<1, 101, "programming", "votes", "desc">>, <<1, 0, "", "id", "ASC">>,
   <<2, -1, "", "created_at", "desc">>}

(***************************************************************************)
(* Specifications.                                                         *)
(*   Spec          two requests at a time, their statements interleaved    *)
(*   SpecRating    one request at a time: create, update, delete, rate     *)
(*   SpecMean      one request at a time: create and rate, ratings in range *)
(*   SpecCatalog   one request at a time: create, update, delete           *)
(*   SpecFavorites one request at a time: favorites and the catalog        *)
(*   SpecListing   one request at a time: listing over a changing catalog  *)
(*   SpecMem       jokes_api.py, two threads                               *)
(***************************************************************************)
Serial == {"c1"}

Next ==
  \E p \in Conns :
    \/ \E r \in {JInt(1), JInt(2)} : RateReceive(p, 1, r)
    \/ RateJoke(p)
    \/ \E u \in {"10.0.0.1"} : FavoriteReceive(p, 1, u)
    \/ FavoriteJoke(p)
    \/ AddReceive(p, Body("Q", "A", Absent))
    \/ AddJoke(p)
    \/ \E id \in {1, MaxJokes} : DeleteReceive(p, id)
    \/ DeleteJoke(p)

Spec == Init /\ [][Next /\ UNCHANGED memVars]_vars

NextRating ==
  \E p \in Serial :
    \/ AddReceive(p, Body("Q", "A", Absent))
    \/ AddJoke(p)
    \/ UpdateReceive(p, 1, Body("Q2", Absent, Absent))
    \/ UpdateJoke(p)
    \/ DeleteReceive(p, NumSample)
    \/ DeleteJoke(p)
    \/ \E id \in JokeIds, r \in RatingBodies : RateReceive(p, id, r)
    \/ RateJoke(p)

SpecRating == Init /\ [][NextRating /\ UNCHANGED memVars]_vars

NextMean ==
  \E p \in Serial :
    \/ AddReceive(p, Body("Q", "A", Absent))
    \/ AddJoke(p)
    \/ \E id \in {1, NumSample + 1}, r \in ValidRatings \cup {JInt(0)} :
         RateReceive(p, id, r)
    \/ RateJoke(p)

SpecMean == Init /\ [][NextMean /\ UNCHANGED memVars]_vars

NextCatalog ==
  \/ Tick
  \/ \E p \in Serial :
       \/ \E d \in AddBodies : AddReceive(p, d)
       \/ AddJoke(p)
       \/ \E id \in JokeIds, d \in UpdateBodies : UpdateReceive(p, id, d)
       \/ UpdateJoke(p)
       \/ \E id \in JokeIds : DeleteReceive(p, id)
       \/ DeleteJoke(p)

SpecCatalog == Init /\ [][NextCatalog /\ UNCHANGED memVars]_vars

NextFavorites ==
  \/ Tick
  \/ \E p \in Serial :
       \/ \E id \in JokeIds, u \in Users : FavoriteReceive(p, id, u)
       \/ FavoriteJoke(p)
       \/ \E u \in Users : GetFavoritesReceive(p, u)
       \/ GetFavorites(p)
       \/ AddReceive(p, Body("Q", "A", Absent))
       \/ AddJoke(p)
       \/ \E id \in JokeIds : DeleteReceive(p, id)
       \/ DeleteJoke(p)

SpecFavorites == Init /\ [][NextFavorites /\ UNCHANGED memVars]_vars

NextListing ==
  \/ Tick
  \/ \E p \in Serial :
       \/ \E q \in ListRequests : ListReceive(p, q[1], q[2], q[3], q[4], q[5])
       \/ GetAllJokes(p)
       \/ AddReceive(p, Body("Q", "A", Absent))
       \/ AddJoke(p)
       \/ DeleteReceive(p, 1)
       \/ DeleteJoke(p)
       \/ \E id \in {1, MaxJokes}, r \in {JInt(2), JNaN} : RateReceive(p, id, r)
       \/ RateJoke(p)

SpecListing == Init /\ [][NextListing /\ UNCHANGED memVars]_vars

NextMem ==
  \E p \in Conns :
    \/ \E d \in {Body("Q", "A", Absent), Body("R", "A", Absent), Body("Q", Absent, Absent)} :
         MemAddBuild(p, d)
    \/ MemAddAppend(p)

SpecMem == Init /\ [][NextMem]_vars

(***************************************************************************)
(* Properties.                                                             *)
(***************************************************************************)
\* the exact sum of the ratings of a log, in units of 2^-52
RECURSIVE SumRated(_)
SumRated(log) ==
  IF log = <<>> THEN FloatZero ELSE BigAdd(SumRated(Tail(log)), Head(log).v)

\* a rate call on joke id has been received and has not returned yet
RateInFlight(id) ==
  \E p \in Conns : pc[p] \in {"rate_check", "rate_write", "rate_select"} /\ loc[p].id = id

\* C1: when n rate calls on one joke overlap in time, then once they have all
\* returned the joke's votes is the number of ratings committed and its rating
\* is the (correctly rounded) mean of all of them: no update is lost.
RateNoLostUpdate ==
  \A i \in 1..Len(jokes) :
    LET id == jokes[i].id
        n  == Len(rated[id])
    IN (~RateInFlight(id) /\ n > 0) =>
         /\ jokes[i].votes = n
         /\ jokes[i].rating = FloatDivInt(SumRated(rated[id]), n)

\* C2: whatever the interleaving of favorite calls, the favorites table never
\* holds more than one row for a (joke, user) pair.  favorite_joke answers 201
\* exactly when it inserts a row, so this is also "at most one call per pair
\* reports Joke added to favorites".
FavoriteAtMostOnce ==
  \A id \in JokeIds, u \in Users : Len(SelectFavorite(favorites, id, u)) <= 1

\* a rating the interface calls valid: a number between 1 and 5
ClaimValid(r) ==
  /\ r.t \in {"int", "float"}
  /\ BigCmp(r.v, FloatOfInt(1)) >= 0
  /\ BigCmp(r.v, FloatOfInt(5)) <= 0

AllValid(log) == \A i \in 1..Len(log) : ClaimValid(log[i])

\* (rating, votes) of a fresh joke after the ratings of log, one after another
RECURSIVE FoldRatings(_)
FoldRatings(log) ==
  IF log = <<>> THEN [rating |-> FloatZero, votes |-> 0]
  ELSE LET n    == Len(log)
           prev == FoldRatings(SubSeq(log, 1, n - 1))
       IN [rating |-> NewRating(prev.rating, prev.votes, log[n]),
           votes |-> NewVotes(prev.votes)]

\* the submission orders of a log
Reorderings(log) ==
  {[i \in 1..Len(log) |-> log[f[i]]] : f \in Permutations(1..Len(log))}

\* n * floor(sum * n * 2^-51): n times the distance that a relative error of
\* n * 2^-51 allows between a rating and the exact mean sum / n
Slack(sum, n) ==
  LET x == BigMulSmall(sum, n) IN 2 * x[5] + x[4] \div 2^12

\* |a - b| * n <= k * Slack(sum, n)
Near(a, b, sum, n, k) ==
  LET d == BigMulSmall(BigAbsDiff(a, b), n)
  IN d[5] = 0 /\ d[4] = 0 /\ d[3] = 0 /\ d[2] = 0 /\ d[1] <= k * Slack(sum, n)

\* |n * rating - sum| <= floor(sum * n * 2^-51)
NearMean(rating, sum, n) ==
  LET d == BigAbsDiff(BigMulSmall(rating, n), sum)
  IN d[5] = 0 /\ d[4] = 0 /\ d[3] = 0 /\ d[2] = 0 /\ d[1] <= Slack(sum, n)

\* r1 + ... + rn as floats add, left to right
RECURSIVE FloatSum(_)
FloatSum(log) ==
  IF log = <<>> THEN FloatZero
  ELSE FloatAdd(FloatSum(SubSeq(log, 1, Len(log) - 1)), log[Len(log)].v)

\* C3 as stated: after valid ratings r1..rn, one after another, on a fresh
\* joke, votes is n, rating is (r1 + ... + rn) / n (the float nearest to the
\* exact mean, or the float that expression evaluates to), and every
\* submission order ends in the same (rating, votes).
RatingExactMean ==
  \A i \in 1..Len(jokes) :
    LET log == rated[jokes[i].id]
        n   == Len(log)
    IN (n > 0 /\ AllValid(log) /\ ~RateInFlight(jokes[i].id)) =>
         /\ jokes[i].votes = n
         /\ \/ jokes[i].rating = FloatDivInt(SumRated(log), n)
            \/ jokes[i].rating = FloatDivInt(FloatSum(log), n)
         /\ \A o \in Reorderings(log) :
              FoldRatings(o) = [rating |-> jokes[i].rating, votes |-> n]

\* C3, amended: after valid ratings r1..rn, one after another, on a fresh
\* joke, votes is exactly n and rating is the mean within floating-point
\* tolerance (relative error at most n * 2^-51); every submission order ends
\* in the same votes and in a rating within twice that tolerance of this one.
RatingMeanWithinTolerance ==
  \A i \in 1..Len(jokes) :
    LET log == rated[jokes[i].id]
        n   == Len(log)
        sum == SumRated(log)
    IN (n > 0 /\ AllValid(log) /\ ~RateInFlight(jokes[i].id)) =>
         /\ jokes[i].votes = n
         /\ NearMean(jokes[i].rating, sum, n)
         /\ \A o \in Reorderings(log) :
              /\ FoldRatings(o).votes = n
              /\ Near(FoldRatings(o).rating, jokes[i].rating, sum, n, 2)

\* a joke has taken MaxVotes valid ratings, not all equal, and its rating is
\* not the exact mean
RatingInexactReached ==
  \E i \in 1..Len(jokes) :
    LET log == rated[jokes[i].id]
    IN /\ Len(log) = MaxVotes /\ AllValid(log)
       /\ \E a, b \in 1..Len(log) : log[a] # log[b]
       /\ jokes[i].votes = MaxVotes
       /\ BigMulSmall(jokes[i].rating, MaxVotes) # SumRated(log)

\* C4: a rate call whose rating is missing, not a number, below 1 or above 5
\* is answered 400 and changes no joke; a rate call with a number between 1
\* and 5 on an existing joke is accepted (it goes on to write).
RatingValidated ==
  [][\A p \in Conns :
       (pc[p] = "rate_check" /\ pc'[p] # "rate_check") =>
         IF ClaimValid(loc[p].rating)
         THEN SelectJoke(jokes, loc[p].id) # <<>> => pc'[p] = "rate_write"
         ELSE pc'[p] = "idle" /\ resp'[p].status = 400 /\ jokes' = jokes]_vars

\* C9: every stored joke has votes >= 0, rating 0.0 while votes is 0, and a
\* rating between 1 and 5 once votes is 1 or more.
RatingVotesInvariant ==
  \A i \in 1..Len(jokes) :
    LET j == jokes[i]
    IN /\ j.votes \in Nat
       /\ j.votes = 0 => j.rating = FloatZero
       /\ j.votes >= 1 => /\ j.rating # SqlNull
                          /\ BigCmp(j.rating, FloatOfInt(1)) >= 0
                          /\ BigCmp(j.rating, FloatOfInt(5)) <= 0

\* rows of fs for the pair (id, u)
PairCount(fs, id, u) ==
  Cardinality({i \in 1..Len(fs) : fs[i].joke_id = id /\ fs[i].user_ip = u})

\* occurrences of joke id in a list of joke rows
Occurrences(rows, id) == Cardinality({i \in 1..Len(rows) : rows[i].id = id})

\* C5: with one request at a time, a favorite call on an existing joke whose
\* pair is not stored inserts one row and answers 201; a favorite call whose
\* pair is stored answers 200 "already in favorites" and writes nothing,
\* however often it is repeated; and the client's favorites list holds the
\* joke exactly once while the pair is stored.
FavoriteIdempotent ==
  [][\A p \in Conns :
       /\ (pc[p] = "favorite_joke" /\ pc'[p] # "favorite_joke"
             /\ SelectJoke(jokes, loc[p].id) # <<>>) =>
            pc'[p] = "favorite_check" /\ favorites' = favorites
       /\ (pc[p] = "favorite_check" /\ pc'[p] # "favorite_check") =>
            IF PairCount(favorites, loc[p].id, loc[p].user_ip) > 0
            THEN /\ pc'[p] = "idle"
                 /\ resp'[p].status = 200
                 /\ resp'[p].msg = "Joke already in favorites"
                 /\ favorites' = favorites
            ELSE pc'[p] = "favorite_insert" /\ favorites' = favorites
       /\ (pc[p] = "favorite_insert" /\ pc'[p] # "favorite_insert") =>
            /\ PairCount(favorites, loc[p].id, loc[p].user_ip) = 0
            /\ PairCount(favorites', loc[p].id, loc[p].user_ip) = 1
            /\ pc'[p] = "idle"
            /\ resp'[p].status = 201
       /\ (pc[p] = "get_favorites" /\ pc'[p] # "get_favorites") =>
            \A id \in JokeIds :
              Occurrences(resp'[p].rows, id) =
                IF PairCount(favorites, id, loc[p].user_ip) > 0
                     /\ SelectJoke(jokes, id) # <<>>
                THEN 1 ELSE 0]_vars

\* a repeated favorite call has been answered "already in favorites"
FavoriteRepeatedReached ==
  /\ \E p \in Conns : resp[p].op = "favorite" /\ resp[p].status = 200
  /\ favorites # <<>>

\* page sizes: every size up to one more than the table can hold (larger
\* sizes all give one page), and the sizes at the cap
PageSizes == (1..(MaxJokes + 1)) \cup {PerPageCap - 1, PerPageCap}

\* category arguments: none, stored categories, one that is not stored
CategoryFilters == {"", "programming", "python", "general", "nonexistent"}

\* pages 1..pages of a listing, one after another
RECURSIVE ConcatPages(_, _, _, _, _)
ConcatPages(pages, size, category, sort_by, order) ==
  IF pages = 0 THEN <<>>
  ELSE ConcatPages(pages - 1, size, category, sort_by, order)
         \o PageRows(jokes, pages, size, category, sort_by, order)

\* C6: in any store state, for every page size in [1, 100], category filter,
\* allowed sort field and direction, with pages = ceil(total / size): pages
\* 1..pages together hold total rows, their concatenation is the whole sorted
\* filtered sequence, each filtered joke occurs in it exactly once, and total
\* is the number of jokes the filter keeps.
PaginationConsistent ==
  \A size \in PageSizes, category \in CategoryFilters,
     sort_by \in AllowedSorts, order \in {"asc", "desc"} :
    LET kept  == {i \in 1..Len(jokes) : category = "" \/ jokes[i].category = category}
        total == CountRows(jokes, category)
        pages == FloorDiv(total + size - 1, size)
        all   == ConcatPages(pages, size, category, sort_by, order)
    IN /\ total = Cardinality(kept)
       /\ Len(all) = total
       /\ all = OrderBy(FilterCategory(jokes, category), sort_by, Upper(order))
       /\ \A i \in kept : Occurrences(all, jokes[i].id) = 1
       /\ \A k \in 1..(Len(all) - 1) :
            ~Before(all[k + 1], all[k], sort_by, Upper(order))

\* a listing of two pages has been answered over jokes with different ratings
PaginatedListingReached ==
  /\ \E p \in Conns :
       /\ resp[p].op = "list" /\ resp[p].status = 200
       /\ resp[p].meta[4] >= 2 /\ Len(resp[p].rows) >= 2
  /\ \E a, b \in 1..Len(jokes) : jokes[a].rating # jokes[b].rating

\* C7: every listing is answered 200 with a per_page between 1 and 100 in its
\* pagination envelope, whatever per_page the caller sent.
PerPageClamped ==
  \A p \in Conns :
    resp[p].op = "list" =>
      /\ resp[p].status = 200
      /\ resp[p].meta[2] >= 1
      /\ resp[p].meta[2] <= PerPageCap

\* the request carries a category name that is no row of categories
BadCategory(data) == data.category # Absent /\ data.category \notin Categories

\* C8: add_joke and update_joke with a category that does not exist answer
\* 400 (404 when the joke to update does not exist) and leave the jokes table
\* as it was: no row inserted, no field of any row changed, whatever else the
\* request carries.  So every stored joke's category is a row of categories,
\* the sample jokes of init_db included.
CategoryGuard ==
  /\ \A i \in 1..Len(SampleCategories) : SampleCategories[i] \in Categories
  /\ [](\A i \in 1..Len(jokes) : jokes[i].category \in Categories)
  /\ [][\A p \in Conns :
          /\ (pc[p] = "add_check" /\ pc'[p] # "add_check" /\ BadCategory(loc[p].data)) =>
               /\ pc'[p] = "idle"
               /\ resp'[p].status = 400
               /\ jokes' = jokes /\ seqno' = seqno
          /\ (pc[p] = "update_check" /\ pc'[p] # "update_check"
                /\ BadCategory(loc[p].data)) =>
               /\ pc'[p] = "idle"
               /\ resp'[p].status =
                    IF SelectJoke(jokes, loc[p].id) = <<>> THEN 404 ELSE 400
               /\ jokes' = jokes]_vars

\* an update that carries new texts and a category that does not exist has
\* been refused, at a time when updated_at would have changed
CategoryRefusedReached ==
  \E p \in Conns :
    /\ resp[p].op = "update" /\ resp[p].status = 400
    /\ resp[p].msg = "Category does not exist"
    /\ clock > 0
    /\ Len(jokes) = MaxJokes

\* the ids of a list of jokes are positive and pairwise different
IdsUnique(rows) ==
  /\ \A a \in 1..Len(rows) : rows[a].id \in Nat \ {0}
  /\ \A a, b \in 1..Len(rows) : a # b => rows[a].id # rows[b].id

\* C10: in both services, under any interleaving of requests, no two stored
\* jokes share an id, every id is a positive integer, and no step changes
\* the id of a stored joke (JOKES keeps the id at every position; an id of
\* the jokes table was there before the step or is newly allocated).
JokeIdsUnique ==
  /\ [](IdsUnique(JOKES) /\ IdsUnique(jokes))
  /\ [][/\ \A a \in 1..Len(JOKES) : JOKES'[a].id = JOKES[a].id
        /\ \A a \in 1..Len(jokes') :
             \/ \E b \in 1..Len(jokes) : jokes[b].id = jokes'[a].id
             \/ jokes'[a].id = seqno' /\ seqno' > seqno]_vars

\* where joke id stands in a list of joke rows
IndexOf(rows, id) == CHOOSE k \in 1..Len(rows) : rows[k].id = id

\* C11: with one request at a time, whenever a client's favorites list is
\* answered, then for any two of the client's favorites of different stored
\* jokes, the one favorited later (the later row of favorites) comes first,
\* and every entry is the joke's row as it is now.
FavoritesNewestFirst ==
  [][\A p \in Conns :
       (pc[p] = "get_favorites" /\ pc'[p] # "get_favorites") =>
         LET u    == loc[p].user_ip
             rows == resp'[p].rows
             mine == {i \in 1..Len(favorites) :
                        /\ favorites[i].user_ip = u
                        /\ SelectJoke(jokes, favorites[i].joke_id) # <<>>}
         IN /\ \A k \in 1..Len(rows) : <<rows[k]>> = SelectJoke(jokes, rows[k].id)
            /\ \A a, b \in mine :
                 (a < b /\ favorites[a].joke_id # favorites[b].joke_id) =>
                   IndexOf(rows, favorites[b].joke_id)
                     < IndexOf(rows, favorites[a].joke_id)]_vars

\* C12: a favorites list holds only jokes that are stored now and that the
\* asking client has a favorites row for; a favorites row never names an id
\* that was not allocated yet, and a newly inserted joke never takes the id
\* of any favorites row, so a row left behind by delete_joke never shows a
\* later joke.
FavoritesOnlyOwnStored ==
  /\ [](\A i \in 1..Len(favorites) : favorites[i].joke_id \in 1..seqno)
  /\ [][/\ \A p \in Conns :
             (pc[p] = "get_favorites" /\ pc'[p] # "get_favorites") =>
               \A k \in 1..Len(resp'[p].rows) :
                 /\ \E a \in 1..Len(jokes) : jokes[a] = resp'[p].rows[k]
                 /\ PairCount(favorites, resp'[p].rows[k].id, loc[p].user_ip) > 0
        /\ \A a \in 1..Len(jokes') :
             (\A b \in 1..Len(jokes) : jokes[b].id # jokes'[a].id) =>
               \A i \in 1..Len(favorites') : favorites'[i].joke_id # jokes'[a].id]_vars

\* a favorites list has been answered while a favorites row names a deleted
\* joke and a joke created after that row is stored
OrphanFavoriteReached ==
  /\ \E p \in Conns : resp[p].op = "get_favorites" /\ resp[p].status = 200
  /\ \E i \in 1..Len(favorites) :
       /\ SelectJoke(jokes, favorites[i].joke_id) = <<>>
       /\ \E a \in 1..Len(jokes) :
            /\ jokes[a].id > favorites[i].joke_id
            /\ jokes[a].created_at > favorites[i].created_at

====
